---- MODULE Spec2Model ----
(***************************************************************************)
(* One WebSocket connection of servicekit: the run loop WSHandleConn, the  *)
(* BaseConn send helpers and writer dispatch, and the three grpcws bridge  *)
(* connections (server-, client- and bidi-streaming) with their forwarder. *)
(***************************************************************************)
EXTENDS Integers, Sequences, FiniteSets, TLC

\* ---------------------------------------------------------------- bounds
MaxTime == 4            \* time units the clock may advance
BridgeMaxTime == 1      \* the same, for a bridge connection
PingPeriod == 1         \* config.PingPeriod, in time units
PongPeriod == 2         \* config.PongPeriod, in time units
MaxCap == 2             \* largest capacity of the writer's input channel
MaxSends == 3           \* calls of Writer.Send over the life
MaxClose == 2           \* calls of OnClose over the life
MaxPingId == 127        \* the largest pingId, standing for math.MaxInt64
MaxReceived == 1        \* data envelopes the upstream accepts over the life
MaxIncs == 5            \* calls of IncrementSent / IncrementReceived
MaxSockets == 2         \* WebSockets a BaseWSClient creates
MaxFrames == 2          \* text frames a BaseWSClient receives
MaxLog == 3             \* entries of the BaseWSClient history
MaxClientPingId == 1    \* largest pingId of a frame the BaseWSClient receives

VARIABLES
    kind,        \* which connection type Validate produced
    hooks,       \* "default": BaseConn's OnError/OnTimeout; "custom": overridden
    req,         \* the HTTP request: what Validate and the upgrade made of it
    ctl,         \* WSServe / run loop position: "request", "rejected",
                 \* "pending", "open", "closed"
    now,         \* the clock
    pingDue,     \* a tick is waiting in pingTimer.C
    pongDue,     \* a tick is waiting in pongChecker.C
    lastReadAt,  \* WSHandleConn's lastReadAt
    readDeadline,\* the deadline set by conn.SetReadDeadline
    PingId,      \* BaseConn.PingId
    writer,      \* BaseConn.Writer: "nil", "running", "stopped"
    queue,       \* the writer's input channel
    writing,     \* per task: the frame it is writing with conn.WriteMessage
    wire,        \* frames written to the WebSocket, in order
    cancelled,   \* streamCtx is done
    ctxDone,     \* the context given to CreateStream is done
    fwd,         \* forwardResponses goroutine: "none", "running", "exited"
    sendClosed,  \* upstream CloseSend / CloseAndRecv has been called
    cap,         \* capacity of the writer's input channel
    sends,       \* history: every call of Writer.Send, in order
    recvEof,     \* history: stream.Recv has returned io.EOF
    lastRecv,    \* history: what stream.Recv / EncodeData last gave the forwarder
    lastInAt,    \* history: when the reader last delivered a result (-1: never)
    closeCalls,  \* history: number of OnClose calls
    closeLog,    \* history: the calls the close path made, in order
    panicked,    \* a nil dereference happened
    cpend,       \* messages the running handler has still to Send
    ev,          \* history: what the last run loop step did
    codec,       \* a GRPCWSCodec Encode / Decode round: envelope, bytes, result
    client,      \* the TypeScript BaseWSClient: options, ws, sockets, history
    metrics,     \* StreamMetrics: MsgsSent, MsgsReceived
    incs         \* history: the Increment calls and what they returned

vars == <<kind, hooks, req, codec, client, metrics, incs, ctl, now, pingDue, pongDue,
          lastReadAt, readDeadline, PingId, writer, queue, writing, wire,
          cancelled, ctxDone, fwd, sendClosed, cap, sends, recvEof,
          lastRecv, lastInAt, closeCalls, closeLog, panicked, cpend, ev>>

\* the variables of the connection and its run loop
connVars == <<kind, hooks, req, ctl, now, pingDue, pongDue, lastReadAt,
              readDeadline, PingId, writer, queue, writing, wire, cancelled,
              ctxDone, fwd, sendClosed, cap, sends, recvEof, lastRecv,
              lastInAt, closeCalls, closeLog, panicked, cpend, ev>>

Kinds == {"base", "server", "client", "bidi"}
Bridge == {"server", "client", "bidi"}
Tasks == {"writer", "controller", "forwarder"}
\* no frame: the value of `writing` between two writes
None == [tag |-> "none", env |-> "none", id |-> 0, seq |-> 0, mt |-> "none",
         body |-> [type |-> "none"]]

\* ------------------------------------------------------ outgoing messages
\* OutgoingMessage: exactly one of Data / Ping / Error is set.  A Data message
\* of a bridge is a ControlMessage whose Type is env and whose Error is text
\* ("none": empty).
PingMsg(id) ==
    [tag |-> "ping", env |-> "none", id |-> id, err |-> "none", text |-> "none"]
DataMsg(env) ==
    [tag |-> "data", env |-> env, id |-> 0, err |-> "none", text |-> "none"]
\* SendError setting the Data branch as well as Error.
ErrorMsgWithData(e) ==
    [tag |-> "error", env |-> "error", id |-> 0, err |-> e, text |-> "none"]
ErrorMsg(e) ==
    [tag |-> "error", env |-> "none", id |-> 0, err |-> e, text |-> "none"]

\* conc.Writer.Send: refused when the writer is not running, otherwise the
\* message is appended to the channel (the caller waits for room).
CanSend == Len(sends) < MaxSends /\ (writer = "running" => Len(queue) < cap)
WriterSend(q, m, by) ==
    IF writer = "running"
    THEN Append(q, [msg |-> m, by |-> by, seq |-> Len(sends) + 1])
    ELSE q

\* BaseConn.SendOutput / SendError: enqueue through the Writer when it exists.
SendOutput(q, m, by) == IF writer # "nil" THEN WriterSend(q, m, by) ELSE q
\* the record of that call: who sent what, and whether the Writer took it
Sent(h, m, by) ==
    IF writer # "nil"
    THEN Append(h, [msg |-> m, by |-> by, ok |-> (writer = "running")])
    ELSE h

\* ------------------------------------------------------------ the hooks
\* an OnError of BaseConn that logs the error and returns nil.
OnErrorMasksByDefault == IF hooks = "default" THEN {TRUE} ELSE BOOLEAN

\* BaseConn.OnError returns the error (never masks); an override may mask.
OnErrorMasks == IF hooks = "default" THEN {FALSE} ELSE BOOLEAN
\* an OnTimeout of BaseConn that keeps the connection alive.
OnTimeoutResultsKeeps == IF hooks = "default" THEN {FALSE} ELSE BOOLEAN

\* BaseConn.OnTimeout returns true; an override may return false.
OnTimeoutResults == IF hooks = "default" THEN {TRUE} ELSE BOOLEAN

\* conc.Writer.Stop: stops the worker; stopping a stopped writer is a no-op.
WriterStop(w) == "stopped"

\* BaseConn.OnClose leaving the Writer running.
BaseConnOnCloseNoStop(w) == [writer |-> w, panicked |-> FALSE]

\* BaseConn.OnClose: stop the Writer when there is one.
BaseConnOnClose(w) ==
    [writer |-> IF w # "nil" THEN WriterStop(w) ELSE w, panicked |-> FALSE]

\* baseGRPCConn.cancel finding no cancelFunc to call.
CancelNever(k, c) == c

\* baseGRPCConn.cancel: cancelFunc is set by Validate for every bridge.
Cancel(k, c) == IF k \in Bridge THEN TRUE ELSE c

\* Validate leaving in cancelFunc the function initContext stored there.
cancelFuncOfInitContext == "streamCtx"

\* which context conn.cancelFunc cancels: initContext stores the cancel of
\* its child context streamCtx, then Validate overwrites it with the cancel
\* of ctx, the context it gave to CreateStream and the parent of streamCtx.
cancelFunc == "ctx"

\* the effect of baseGRPCConn.cancel on ctx: done when cancelFunc is its own
\* cancel function (streamCtx, its child, is done in either case).
CancelCtx(k, c) == IF k \in Bridge /\ cancelFunc = "ctx" THEN TRUE ELSE c

\* baseGRPCConn.OnClose cancelling after BaseConn.OnClose has stopped the
\* Writer.
OnCloseCallsCancelLast(k, w) ==
    <<"OnClose">> \o (IF w # "nil" THEN <<"Writer.Stop">> ELSE <<>>)
                 \o (IF k \in Bridge THEN <<"cancel">> ELSE <<>>)

\* the calls of one OnClose, in order: baseGRPCConn.OnClose calls c.cancel()
\* and then BaseConn.OnClose, which stops the Writer when there is one.
OnCloseCalls(k, w) ==
    <<"OnClose">> \o (IF k \in Bridge THEN <<"cancel">> ELSE <<>>)
                 \o (IF w # "nil" THEN <<"Writer.Stop">> ELSE <<>>)

\* OnClose of the connection: baseGRPCConn.OnClose cancels, then BaseConn.OnClose.
OnCloseThen(rest) ==
    /\ cancelled' = Cancel(kind, cancelled)
    /\ ctxDone' = CancelCtx(kind, ctxDone)
    /\ writer' = BaseConnOnClose(writer).writer
    /\ panicked' = (panicked \/ BaseConnOnClose(writer).panicked)
    /\ closeCalls' = closeCalls + 1
    /\ closeLog' = closeLog \o OnCloseCalls(kind, writer) \o rest
OnClose == OnCloseThen(<<>>)

\* what runs after the deferred ctx.OnClose() when WSHandleConn returns: its
\* other deferred calls, last registered first, then the conn.Close()
\* deferred by WSServe.
Returning == <<"pongChecker.Stop", "pingTimer.Stop", "reader.Stop", "conn.Close">>

\* WSHandleConn returning without having deferred ctx.OnClose().
ClosingNoOnClose ==
    /\ ctl' = "closed"
    /\ closeLog' = closeLog \o Returning
    /\ UNCHANGED <<cancelled, ctxDone, writer, panicked, closeCalls>>

\* return from WSHandleConn: the deferred ctx.OnClose() runs.
Closing == ctl' = "closed" /\ OnCloseThen(Returning)
Staying == UNCHANGED <<ctl, cancelled, ctxDone, writer, panicked, closeCalls, closeLog>>

Ev(op, in, delta, consulted, result) ==
    [op |-> op, in |-> in, delta |-> delta, consulted |-> consulted,
     result |-> result, call |-> "none"]
NoEv == Ev("none", "none", 0, FALSE, FALSE)

\* the request: Validate's verdict ("none" before it ran), the outcome of
\* Upgrader.Upgrade, the status of the error response the library wrote (0:
\* none), and what became of CreateStream
Request(valid, upgrade, status, stream) ==
    [valid |-> valid, upgrade |-> upgrade, status |-> status, stream |-> stream]
NoRequest == Request("none", "none", 0, "none")

Init ==
    /\ kind \in Kinds
    /\ hooks \in {"default", "custom"}
    /\ (kind \in Bridge => hooks = "default")
    /\ req = NoRequest
    /\ ctl = "request"
    /\ now = 0 /\ pingDue = FALSE /\ pongDue = FALSE
    /\ lastReadAt = 0 /\ readDeadline = 0
    /\ PingId = 0
    /\ writer = "nil" /\ queue = <<>> /\ wire = <<>>
    /\ writing = [t \in Tasks |-> None]
    /\ cancelled = FALSE /\ ctxDone = FALSE /\ fwd = "none" /\ sendClosed = FALSE
    /\ cap \in 1..MaxCap
    /\ sends = <<>> /\ recvEof = FALSE /\ lastRecv = "none" /\ lastInAt = -1
    /\ closeCalls = 0 /\ closeLog = <<>> /\ panicked = FALSE
    /\ cpend = <<>>
    /\ ev = NoEv

\* ------------------------------------------------------------ the clock
\* time passes; the two tickers put a tick in their channel every period
Advance(max) ==
    /\ ctl = "open" /\ now < max
    /\ now' = now + 1
    /\ pingDue' = (pingDue \/ (now' % PingPeriod = 0))
    /\ pongDue' = (pongDue \/ (now' % PongPeriod = 0))
    /\ UNCHANGED <<kind, hooks, req, codec, client, metrics, incs, ctl, lastReadAt, readDeadline, PingId,
                   writer, queue, writing, wire, cancelled, ctxDone, fwd,
                   sendClosed, cap, sends, recvEof, lastRecv, lastInAt, closeCalls, closeLog,
                   panicked, cpend, ev>>

Tick == Advance(MaxTime)
\* the bridges are followed over their first heartbeats only
BridgeTick == Advance(BridgeMaxTime)

\* ------------------------------------------------------------ WSServe
\* what a Validate returns: the verdict, the status it answered with, what
\* became of CreateStream, and whether it cancelled the context it made
Validated(valid, status, stream, cancel) ==
    [valid |-> valid, status |-> status, stream |-> stream, cancel |-> cancel]

\* Validate of a plain connection's handler: it accepts or refuses (and
\* writes the error response itself).
BaseValidate(accept) == Validated(accept, 0, "none", FALSE)

\* ServerStreamHandler.Validate leaving the context alive when CreateStream
\* fails.
ServerValidateNoCancel(parseOk, createOk) ==
    IF ~parseOk THEN Validated(FALSE, 400, "none", FALSE)
    ELSE IF ~createOk THEN Validated(FALSE, 500, "failed", FALSE)
    ELSE Validated(TRUE, 0, "created", FALSE)

\* ServerStreamHandler.Validate: ParseRequest, then the context and
\* CreateStream.
ServerValidate(parseOk, createOk) ==
    IF ~parseOk THEN Validated(FALSE, 400, "none", FALSE)
    ELSE IF ~createOk THEN Validated(FALSE, 500, "failed", TRUE)
    ELSE Validated(TRUE, 0, "created", FALSE)

\* ClientStreamHandler.Validate and BidiStreamHandler.Validate: the context
\* and CreateStream.
StreamValidate(createOk) ==
    IF ~createOk THEN Validated(FALSE, 500, "failed", TRUE)
    ELSE Validated(TRUE, 0, "created", FALSE)

\* WSServe upgrading whatever Validate said.
UpgradesAlways(isValid) == TRUE

\* WSServe: `if !isValid { return }`
Upgrades(isValid) == isValid

\* the handler function WSServe returns, up to the call of WSHandleConn:
\* Validate, then Upgrader.Upgrade (which may fail: 400).
WSServe ==
    /\ ctl = "request"
    /\ \E accept \in (IF kind = "base" THEN BOOLEAN ELSE {TRUE}) :
       \E parseOk \in (IF kind = "server" THEN BOOLEAN ELSE {TRUE}) :
       \E createOk \in (IF kind \in Bridge THEN BOOLEAN ELSE {TRUE}) :
       \E upOk \in BOOLEAN :
         LET v == CASE kind = "base" -> BaseValidate(accept)
                    [] kind = "server" -> ServerValidate(parseOk, createOk)
                    [] OTHER -> StreamValidate(createOk)
             verdict == IF v.valid THEN "yes" ELSE "no"
         IN /\ ctxDone' = (ctxDone \/ v.cancel)
            /\ IF ~Upgrades(v.valid)
               THEN /\ upOk
                    /\ ctl' = "rejected"
                    /\ req' = Request(verdict, "none", v.status, v.stream)
               ELSE IF upOk
               THEN /\ ctl' = "pending"
                    /\ req' = Request(verdict, "ok", v.status, v.stream)
               ELSE /\ ctl' = "rejected"
                    /\ req' = Request(verdict, "failed", 400, v.stream)
    /\ UNCHANGED <<kind, hooks, codec, client, metrics, incs, now, pingDue, pongDue,
                   lastReadAt, readDeadline, PingId, writer, queue, writing,
                   wire, cancelled, fwd, sendClosed, cap, sends, recvEof,
                   lastRecv, lastInAt, closeCalls, closeLog, panicked, cpend, ev>>

\* ------------------------------------------------------- WSHandleConn
\* ctx.OnStart succeeds: BaseConn.OnStart creates the Writer; the server and
\* bidi bridges start forwardResponses; then the read deadline is seeded.
Start ==
    /\ ctl = "pending"
    /\ ctl' = "open"
    /\ writer' = "running"
    /\ fwd' = IF kind \in {"server", "bidi"} THEN "running" ELSE fwd
    /\ readDeadline' = now + PongPeriod
    /\ ev' = Ev("start", "none", 0, FALSE, FALSE)
    /\ UNCHANGED <<kind, hooks, req, codec, client, metrics, incs, now, pingDue, pongDue, lastReadAt, PingId,
                   queue, writing, wire, cancelled, ctxDone, sendClosed, cap, sends,
                   recvEof, lastRecv, lastInAt, closeCalls, closeLog, panicked, cpend>>

\* WSHandleConn going on to the select loop after OnStart's error.
StartFailNoReturn ==
    /\ ctl = "pending" /\ kind = "base" /\ hooks = "custom"
    /\ ctl' = "open"
    /\ ev' = Ev("startFail", "none", 0, FALSE, FALSE)
    /\ UNCHANGED <<kind, hooks, req, codec, client, metrics, incs, now, pingDue, pongDue, lastReadAt,
                   readDeadline, PingId, queue, writing, wire, fwd,
                   sendClosed, cap, sends, recvEof, lastRecv, lastInAt, cpend,
                   cancelled, ctxDone, writer, panicked, closeCalls, closeLog>>

\* an overriding OnStart returns an error before BaseConn.OnStart ran.
StartFail ==
    /\ ctl = "pending" /\ kind = "base" /\ hooks = "custom"
    /\ Closing
    /\ ev' = Ev("startFail", "none", 0, FALSE, FALSE)
    /\ UNCHANGED <<kind, hooks, req, codec, client, metrics, incs, now, pingDue, pongDue, lastReadAt,
                   readDeadline, PingId, queue, writing, wire, fwd,
                   sendClosed, cap, sends, recvEof, lastRecv, lastInAt, cpend>>

\* BaseConn.SendPing with the increment after the enqueue.
SendPingIncrementAfter ==
    /\ PingId' = PingId + 1
    /\ queue' = SendOutput(queue, PingMsg(PingId), "controller")
    /\ sends' = Sent(sends, PingMsg(PingId), "controller")
    /\ UNCHANGED <<writing, wire>>

\* BaseConn.SendPing writing the ping to the connection itself.
SendPingDirect ==
    /\ PingId' = PingId + 1
    /\ writing["controller"] = None
    /\ writing' = [writing EXCEPT !["controller"] =
                      [tag |-> "ping", env |-> "none", id |-> PingId + 1,
                       seq |-> 0, mt |-> "text", body |-> [type |-> "ping"]]]
    /\ UNCHANGED <<queue, sends, wire>>

\* BaseConn.SendPing: increment PingId, then enqueue the ping on the Writer.
SendPing ==
    /\ PingId' = PingId + 1
    /\ queue' = SendOutput(queue, PingMsg(PingId + 1), "controller")
    /\ sends' = Sent(sends, PingMsg(PingId + 1), "controller")
    /\ UNCHANGED <<writing, wire>>

\* case <-pingTimer.C
PingTick ==
    /\ ctl = "open" /\ cpend = <<>> /\ pingDue /\ CanSend
    /\ pingDue' = FALSE
    /\ SendPing
    /\ ev' = Ev("pingTick", "none", 0, FALSE, FALSE)
    /\ UNCHANGED <<kind, hooks, req, codec, client, metrics, incs, ctl, now, pongDue, lastReadAt,
                   readDeadline, writer, cancelled, ctxDone, fwd, sendClosed, cap,
                   recvEof, lastRecv, lastInAt, closeCalls, closeLog, panicked, cpend>>

\* hb_delta > config.PongPeriod
TimedOutOrEqual(delta) == delta >= PongPeriod
TimedOut(delta) == delta > PongPeriod

\* case <-pongChecker.C
PongTick ==
    /\ ctl = "open" /\ cpend = <<>> /\ pongDue
    /\ pongDue' = FALSE
    /\ LET delta == now - lastReadAt IN
       IF TimedOut(delta)
       THEN \E r \in OnTimeoutResults :
               /\ IF r THEN Closing ELSE Staying
               /\ ev' = Ev("pongTick", "none", delta, TRUE, r)
       ELSE /\ Staying
            /\ ev' = Ev("pongTick", "none", delta, FALSE, FALSE)
    /\ UNCHANGED <<kind, hooks, req, codec, client, metrics, incs, now, pingDue, lastReadAt, readDeadline,
                   PingId, queue, writing, wire, fwd, sendClosed, cap,
                   sends, recvEof, lastRecv, lastInAt, cpend>>

\* ---------------------------------------------------------- the reader
\* what conn.ReadMessage / Codec.Decode can fail with
RawErrors == {"eof", "close_normal", "close_going_away", "close_no_status",
              "close_abnormal", "close_other", "decode", "timeout"}
CloseErrors == {"close_normal", "close_going_away", "close_no_status",
                "close_abnormal", "close_other"}

\* the reader function of WSHandleConn: an unexpected close error (any
\* close code but going-away, no-status, abnormal) becomes net.ErrClosed.
ReaderWrap(raw) ==
    IF raw \in CloseErrors
       /\ raw \notin {"close_going_away", "close_no_status", "close_abnormal"}
    THEN "net_closed"
    ELSE raw

\* the switch on ce.Code: the three cases do not fall through, only
\* CloseGoingAway returns.
CloseCodeReturns(e) == e = "close_going_away"

\* result.Error != io.EOF, and the close-code switch did not return
ErrorConsultsOnError(e) == e # "eof" /\ ~CloseCodeReturns(e)

\* the run loop treating io.EOF like any other reader error.
ErrorClosesOnEof(e, masked) == CloseCodeReturns(e) \/ ~masked

\* the run loop closing on every reader error whatever OnError returns.
ErrorClosesAlways(e, masked) == e # "eof"

\* the run loop returns on this reader error
ErrorCloses(e, masked) ==
    e # "eof" /\ (CloseCodeReturns(e) \/ ~masked)

\* the reader case without the reset of the read deadline.
TouchNoDeadline == lastReadAt' = now /\ readDeadline' = readDeadline

\* the reader case without the refresh of lastReadAt.
TouchNoRefresh == lastReadAt' = lastReadAt /\ readDeadline' = now + PongPeriod

\* conn.SetReadDeadline(now + PongPeriod); lastReadAt = now
Touch == lastReadAt' = now /\ readDeadline' = now + PongPeriod

\* what the result.Error != nil branch hands to the Writer: it logs, asks
\* OnError and returns or continues, and calls no Send.
ErrorSends(e) == <<>>

\* case result := <-reader.OutputChan(), result.Error != nil
ReadError ==
    /\ ctl = "open" /\ cpend = <<>>
    /\ \E raw \in RawErrors :
         /\ raw = "timeout" => now >= readDeadline
         /\ LET e == ReaderWrap(raw) IN
            \E masked \in OnErrorMasks :
              /\ ErrorConsultsOnError(e) \/ ~masked
              /\ IF ErrorCloses(e, masked) THEN Closing ELSE Staying
              /\ ev' = Ev("readError", raw, 0,
                          ErrorConsultsOnError(e),
                          ErrorConsultsOnError(e) /\ ~masked)
            /\ cpend' = ErrorSends(e)
    /\ Touch
    /\ lastInAt' = now
    /\ UNCHANGED <<kind, hooks, req, codec, client, metrics, incs, now, pingDue, pongDue, PingId, queue,
                   writing, wire, fwd, sendClosed, cap, sends, recvEof, lastRecv>>

\* ------------------------------------------------------- HandleMessage
\* frames the peer can send, by what the connection makes of them
Inbound(k) ==
    IF k = "base" THEN {"msg"}
    ELSE {"data", "data_bad", "end_send", "pong", "cancel", "unknown"}
\* outcome of the upstream call HandleMessage makes (Send, CloseSend,
\* CloseAndRecv; "encfail": EncodeData of the final response fails)
Upstream == {"ok", "fail", "encfail"}
\* what an overriding HandleMessage of a plain connection sends back
Replies == {"none", "data", "error", "eof"}

Handled(out, ret, cancel, closeSend) ==
    [sends |-> out, ret |-> ret, cancel |-> cancel, closeSend |-> closeSend]

\* err.Error() of what stream.Recv ("error") or a codec or upstream call
\* failed with
ErrorText(res) == IF res = "error" THEN "recv failed" ELSE "failed"

\* baseGRPCConn.sendError / sendStreamEnd / sendData: Data messages
sendError(errMsg) == [DataMsg("error") EXCEPT !.text = errMsg]
ErrEnvelope == sendError(ErrorText("failed"))
StreamEnd == DataMsg("stream_end")
DataEnvelope == DataMsg("data")

\* BaseConn.HandleMessage logs and returns nil; an override may reply with
\* SendOutput / SendError and may return an error.
BaseHandleMessage(reply, ret) ==
    Handled(CASE reply = "data" -> <<DataMsg("payload")>>
              [] reply = "error" -> <<ErrorMsg("other")>>
              [] reply = "eof" -> <<ErrorMsg("eof")>>
              [] OTHER -> <<>>,
            ret, FALSE, FALSE)

\* ServerStreamConn.HandleMessage taking end_send for a cancel.
ServerHandleMessageEndCancels(m) ==
    Handled(<<>>, FALSE, m \in {"cancel", "end_send"}, FALSE)

\* ServerStreamConn.HandleMessage
ServerHandleMessage(m) == Handled(<<>>, FALSE, m = "cancel", FALSE)

\* ClientStreamConn.HandleMessage sending stream_end before the response.
ClientHandleMessageEndFirst(m, up) ==
    CASE m = "data_bad" -> Handled(<<ErrEnvelope>>, FALSE, FALSE, FALSE)
      [] m = "data" ->
           IF up = "ok" THEN Handled(<<>>, FALSE, FALSE, FALSE)
           ELSE Handled(<<ErrEnvelope>>, TRUE, FALSE, FALSE)
      [] m = "end_send" ->
           IF up = "ok" THEN Handled(<<StreamEnd, DataEnvelope>>, FALSE, FALSE, TRUE)
           ELSE Handled(<<ErrEnvelope>>, TRUE, FALSE, TRUE)
      [] m = "cancel" -> Handled(<<>>, FALSE, TRUE, FALSE)
      [] OTHER -> Handled(<<>>, FALSE, FALSE, FALSE)

\* ClientStreamConn.HandleMessage
ClientHandleMessage(m, up) ==
    CASE m = "data_bad" -> Handled(<<ErrEnvelope>>, FALSE, FALSE, FALSE)
      [] m = "data" ->
           IF up = "ok" THEN Handled(<<>>, FALSE, FALSE, FALSE)
           ELSE Handled(<<ErrEnvelope>>, TRUE, FALSE, FALSE)
      [] m = "end_send" ->
           IF up = "ok" THEN Handled(<<DataEnvelope, StreamEnd>>, FALSE, FALSE, TRUE)
           ELSE Handled(<<ErrEnvelope>>, TRUE, FALSE, TRUE)
      [] m = "cancel" -> Handled(<<>>, FALSE, TRUE, FALSE)
      [] OTHER -> Handled(<<>>, FALSE, FALSE, FALSE)

\* BidiStreamConn.HandleMessage cancelling the stream on end_send.
BidiHandleMessageEndCancels(m, up) ==
    CASE m = "data_bad" -> Handled(<<ErrEnvelope>>, FALSE, FALSE, FALSE)
      [] m = "data" ->
           IF up = "ok" THEN Handled(<<>>, FALSE, FALSE, FALSE)
           ELSE Handled(<<ErrEnvelope>>, TRUE, FALSE, FALSE)
      [] m = "end_send" ->
           IF up = "ok" THEN Handled(<<>>, FALSE, TRUE, TRUE)
           ELSE Handled(<<ErrEnvelope>>, TRUE, TRUE, TRUE)
      [] m = "cancel" -> Handled(<<>>, FALSE, TRUE, FALSE)
      [] OTHER -> Handled(<<>>, FALSE, FALSE, FALSE)

\* BidiStreamConn.HandleMessage
BidiHandleMessage(m, up) ==
    CASE m = "data_bad" -> Handled(<<ErrEnvelope>>, FALSE, FALSE, FALSE)
      [] m = "data" ->
           IF up = "ok" THEN Handled(<<>>, FALSE, FALSE, FALSE)
           ELSE Handled(<<ErrEnvelope>>, TRUE, FALSE, FALSE)
      [] m = "end_send" ->
           IF up = "ok" THEN Handled(<<>>, FALSE, FALSE, TRUE)
           ELSE Handled(<<ErrEnvelope>>, TRUE, FALSE, TRUE)
      [] m = "cancel" -> Handled(<<>>, FALSE, TRUE, FALSE)
      [] OTHER -> Handled(<<>>, FALSE, FALSE, FALSE)

\* ------------------------------------------------------ StreamMetrics
MetricsZero == [MsgsSent |-> 0, MsgsReceived |-> 0]

\* atomic.AddInt64(&v, 1): one indivisible read-modify-write; the new value
AddInt64(v, delta) == v + delta

\* the counters after n calls of IncrementSent and r of IncrementReceived
Counted(mx, n, r) ==
    [MsgsSent |-> IF n > 0 THEN AddInt64(mx.MsgsSent, n) ELSE mx.MsgsSent,
     MsgsReceived |-> IF r > 0 THEN AddInt64(mx.MsgsReceived, r)
                      ELSE mx.MsgsReceived]

\* HandleMessage counting every data envelope, decoded or not.
HandleReceivedAll(k, m, up) ==
    IF k \in {"client", "bidi"} /\ m \in {"data", "data_bad"} THEN 1 ELSE 0

\* the calls of c.metrics.IncrementReceived() in HandleMessage: one after
\* DecodeRequest and stream.Send both succeeded on a data envelope
HandleReceived(k, m, up) ==
    IF k \in {"client", "bidi"} /\ m = "data" /\ up = "ok" THEN 1 ELSE 0

\* the calls of c.metrics.IncrementSent() in HandleMessage: one before the
\* final response of a client-streaming call is sent
HandleSent(k, m, up) ==
    IF k = "client" /\ m = "end_send" /\ up = "ok" THEN 1 ELSE 0

\* the calls of c.metrics.IncrementSent() in one iteration of
\* forwardResponses: one before an encoded response is sent
ForwardSent(res) == IF res = "value" THEN 1 ELSE 0

\* the method of the upstream stream that HandleMessage calls on envelope m
\* ("data_bad": a data envelope DecodeRequest fails on, before any call)
UpstreamCall(k, m) ==
    CASE k \in {"client", "bidi"} /\ m = "data" -> "Send"
      [] k = "client" /\ m = "end_send" -> "CloseAndRecv"
      [] k = "bidi" /\ m = "end_send" -> "CloseSend"
      [] OTHER -> "none"

\* the upstream outcomes that HandleMessage can meet on message m
UpstreamFor(k, m) ==
    CASE k = "client" /\ m = "end_send" -> Upstream
      [] k \in {"client", "bidi"} /\ m \in {"data", "end_send"} -> {"ok", "fail"}
      [] OTHER -> {"ok"}

\* ctx.HandleMessage(result.Value): the returned error is discarded
HandleCloses(ret) == FALSE

\* case result := <-reader.OutputChan(), result.Error == nil
ReadMessage ==
    /\ ctl = "open" /\ cpend = <<>>
    /\ \E m \in Inbound(kind) :
       \E up \in UpstreamFor(kind, m) :
       \E reply \in (IF kind = "base" /\ hooks = "custom" THEN Replies ELSE {"none"}) :
       \E ret \in (IF kind = "base" /\ hooks = "custom" THEN BOOLEAN ELSE {FALSE}) :
         LET h == CASE kind = "base" -> BaseHandleMessage(reply, ret)
                    [] kind = "server" -> ServerHandleMessage(m)
                    [] kind = "client" -> ClientHandleMessage(m, up)
                    [] kind = "bidi" -> BidiHandleMessage(m, up)
         IN /\ HandleReceived(kind, m, up) > 0 =>
                 metrics.MsgsReceived < MaxReceived
            /\ metrics' = Counted(metrics, HandleSent(kind, m, up),
                                  HandleReceived(kind, m, up))
            /\ cpend' = h.sends
            /\ sendClosed' = (sendClosed \/ h.closeSend)
            /\ ev' = [Ev("handle", m, 0, FALSE, h.ret)
                        EXCEPT !.call = UpstreamCall(kind, m)]
            /\ IF HandleCloses(h.ret)
               THEN Closing
               ELSE /\ cancelled' = IF h.cancel THEN Cancel(kind, cancelled)
                                    ELSE cancelled
                    /\ ctxDone' = IF h.cancel THEN CancelCtx(kind, ctxDone)
                                  ELSE ctxDone
                    /\ UNCHANGED <<ctl, writer, panicked, closeCalls, closeLog>>
    /\ Touch
    /\ lastInAt' = now
    /\ UNCHANGED <<kind, hooks, req, codec, client, incs, now, pingDue, pongDue, PingId, queue,
                   writing, wire, fwd, cap, sends, recvEof, lastRecv>>

\* the handler's next Writer.Send goes through
HandlerSend ==
    /\ cpend # <<>> /\ CanSend
    /\ queue' = SendOutput(queue, Head(cpend), "controller")
    /\ sends' = Sent(sends, Head(cpend), "controller")
    /\ cpend' = Tail(cpend)
    /\ UNCHANGED <<kind, hooks, req, codec, client, metrics, incs, ctl, now, pingDue, pongDue, lastReadAt,
                   readDeadline, PingId, writer, writing, wire, cancelled, ctxDone,
                   fwd, sendClosed, cap, recvEof, lastRecv, lastInAt, closeCalls, closeLog,
                   panicked, ev>>

\* ------------------------------------------------------ forwardResponses
RecvResults == {"value", "eof", "error", "encfail"}

Forwarded(out, exit) == [sends |-> out, exit |-> exit]

\* forwardResponses going on with the loop after an upstream error.
ForwardNoReturnOnError(res, c) ==
    CASE res = "eof" -> Forwarded(<<StreamEnd>>, TRUE)
      [] res = "error" ->
           IF c THEN Forwarded(<<>>, TRUE)
           ELSE Forwarded(<<sendError(ErrorText(res))>>, FALSE)
      [] res = "encfail" -> Forwarded(<<sendError(ErrorText(res))>>, FALSE)
      [] OTHER -> Forwarded(<<DataEnvelope>>, FALSE)

\* forwardResponses sending stream_end on a cancelled stream's error too.
ForwardEndOnCancel(res, c) ==
    CASE res = "eof" -> Forwarded(<<StreamEnd>>, TRUE)
      [] res = "error" ->
           IF c THEN Forwarded(<<StreamEnd>>, TRUE)
           ELSE Forwarded(<<sendError(ErrorText(res))>>, TRUE)
      [] res = "encfail" -> Forwarded(<<sendError(ErrorText(res))>>, TRUE)
      [] OTHER -> Forwarded(<<DataEnvelope>>, FALSE)

\* forwardResponses reporting an upstream error without looking at streamCtx.
ForwardErrorOnCancel(res, c) ==
    CASE res = "eof" -> Forwarded(<<StreamEnd>>, TRUE)
      [] res = "error" -> Forwarded(<<sendError(ErrorText(res))>>, TRUE)
      [] res = "encfail" -> Forwarded(<<sendError(ErrorText(res))>>, TRUE)
      [] OTHER -> Forwarded(<<DataEnvelope>>, FALSE)

\* forwardResponses answering an upstream error with stream_end.
ForwardErrorAsEnd(res, c) ==
    CASE res = "eof" -> Forwarded(<<StreamEnd>>, TRUE)
      [] res = "error" ->
           IF c THEN Forwarded(<<>>, TRUE) ELSE Forwarded(<<StreamEnd>>, TRUE)
      [] res = "encfail" -> Forwarded(<<sendError(ErrorText(res))>>, TRUE)
      [] OTHER -> Forwarded(<<DataEnvelope>>, FALSE)

\* one iteration of forwardResponses (server-streaming and bidi alike):
\* res is what stream.Recv / EncodeData gave, c whether streamCtx is done.
Forward(res, c) ==
    CASE res = "eof" -> Forwarded(<<StreamEnd>>, TRUE)
      [] res = "error" ->
           IF c THEN Forwarded(<<>>, TRUE)
           ELSE Forwarded(<<sendError(ErrorText(res))>>, TRUE)
      [] res = "encfail" -> Forwarded(<<sendError(ErrorText(res))>>, TRUE)
      [] OTHER -> Forwarded(<<DataEnvelope>>, FALSE)

ForwarderStep ==
    /\ fwd = "running"
    /\ \E res \in RecvResults :
         LET f == Forward(res, cancelled) IN
           /\ fwd' = IF f.exit THEN "exited" ELSE "running"
           /\ recvEof' = (recvEof \/ res = "eof")
           /\ lastRecv' = res
           /\ metrics' = Counted(metrics, ForwardSent(res), 0)
           /\ IF f.sends = <<>>
              THEN UNCHANGED <<queue, sends>>
              ELSE /\ CanSend
                   /\ queue' = SendOutput(queue, f.sends[1], "forwarder")
                   /\ sends' = Sent(sends, f.sends[1], "forwarder")
    /\ UNCHANGED <<kind, hooks, req, codec, client, incs, ctl, now, pingDue, pongDue, lastReadAt,
                   readDeadline, PingId, writer, writing, wire, cancelled, ctxDone,
                   sendClosed, cap, lastInAt, closeCalls, closeLog, panicked, cpend,
                   ev>>

\* ---------------------------------------------------- the writer worker
\* a frame given to conn.WriteMessage: its message type mt ("text", or
\* "codec": the type Codec.Encode chose) and its body; tag, env, id and seq
\* tell which message it was made from.
Frame(tag, env, id, seq, mt, body) ==
    [tag |-> tag, env |-> env, id |-> id, seq |-> seq, mt |-> mt, body |-> body]
Written(frame, fail) == [frame |-> frame, fail |-> fail]

\* BaseConn.ConnId(): ConnIdStr, generated once when empty
ConnId == "connId"
\* BaseConn.Name(): NameStr as Validate set it, "BaseConn" when empty
Name(k) ==
    CASE k = "server" -> "ServerStreamConn"
      [] k = "client" -> "ClientStreamConn"
      [] k = "bidi" -> "BidiStreamConn"
      [] OTHER -> "BaseConn"

\* writePing sending the ping with the message type of the data codec.
writePingAsCodec(q) ==
    Written(Frame("ping", "none", q.msg.id, q.seq, "codec",
                  [type |-> "ping", pingId |-> q.msg.id, connId |-> ConnId,
                   name |-> Name(kind)]), FALSE)

\* BaseConn.writePing: the JSON object as a text message
writePing(q) ==
    Written(Frame("ping", "none", q.msg.id, q.seq, "text",
                  [type |-> "ping", pingId |-> q.msg.id, connId |-> ConnId,
                   name |-> Name(kind)]), FALSE)

\* BaseConn.writeError: {"type": "error", "error": err.Error()} as text
writeError(q) ==
    Written(Frame("error", "none", 0, q.seq, "text",
                  [type |-> "error", error |-> q.msg.err]), FALSE)

\* BaseConn.writeMessage: Codec.Encode, then the write with its msgType; an
\* Encode error is returned without a write.
writeMessage(q, encOk) ==
    IF encOk
    THEN Written(Frame("data", q.msg.env, 0, q.seq, "codec",
                       [payload |-> q.msg.env, error |-> q.msg.text]), FALSE)
    ELSE Written(None, TRUE)

\* the branches of an OutgoingMessage that are set
Branches(m) ==
    (IF m.id # 0 THEN {"Ping"} ELSE {})
      \cup (IF m.err # "none" THEN {"Error"} ELSE {})
      \cup (IF m.env # "none" THEN {"Data"} ELSE {})

\* the writer function writing io.EOF like any other error.
DispatchEofWritten(q, encOk) ==
    IF "Ping" \in Branches(q.msg) THEN writePing(q)
    ELSE IF "Error" \in Branches(q.msg) THEN writeError(q)
    ELSE IF "Data" \in Branches(q.msg) THEN writeMessage(q, encOk)
    ELSE Written(None, FALSE)

\* the function OnStart gives to conc.NewWriter, for queue item q; encOk
\* tells whether Codec.Encode succeeds.  It yields the frame handed to
\* conn.WriteMessage (None when nothing is written) and whether it failed
\* before writing.
Dispatch(q, encOk) ==
    IF "Ping" \in Branches(q.msg) THEN writePing(q)
    ELSE IF "Error" \in Branches(q.msg)
         THEN IF q.msg.err = "eof" THEN Written(None, FALSE) ELSE writeError(q)
    ELSE IF "Data" \in Branches(q.msg) THEN writeMessage(q, encOk)
    ELSE Written(None, FALSE)

\* the worker takes the channel's head; a last-in-first-out worker instead.
TakeLast(q) == [item |-> q[Len(q)], rest |-> SubSeq(q, 1, Len(q) - 1)]

\* the worker receives from the channel: first in, first out
Take(q) == [item |-> Head(q), rest |-> Tail(q)]

\* the worker receives a message and dispatches it
WriterTake ==
    /\ writer = "running" /\ writing["writer"] = None /\ queue # <<>>
    /\ \E encOk \in BOOLEAN :
         /\ Take(queue).item.msg.tag # "data" => encOk
         /\ LET d == Dispatch(Take(queue).item, encOk) IN
              /\ writing' = [writing EXCEPT !["writer"] = d.frame]
              /\ writer' = IF d.fail THEN "stopped" ELSE writer
    /\ queue' = Take(queue).rest
    /\ UNCHANGED <<kind, hooks, req, codec, client, metrics, incs, ctl, now, pingDue, pongDue, lastReadAt,
                   readDeadline, PingId, wire, cancelled, ctxDone, fwd, sendClosed,
                   cap, sends, recvEof, lastRecv, lastInAt, closeCalls, closeLog, panicked,
                   cpend, ev>>

\* conn.WriteMessage returns: the frame is on the wire, or the write failed
\* and the worker exits.
WriteComplete ==
    \E t \in Tasks : \E ok \in BOOLEAN :
      /\ writing[t] # None
      /\ writing' = [writing EXCEPT ![t] = None]
      /\ wire' = IF ok
                 THEN Append(wire, [tag |-> writing[t].tag, env |-> writing[t].env,
                                    id |-> writing[t].id, seq |-> writing[t].seq,
                                    mt |-> writing[t].mt,
                                    body |-> writing[t].body, by |-> t])
                 ELSE wire
      /\ writer' = IF t = "writer" /\ ~ok THEN "stopped" ELSE writer
      /\ UNCHANGED <<kind, hooks, req, codec, client, metrics, incs, ctl, now, pingDue, pongDue, lastReadAt,
                     readDeadline, PingId, queue, cancelled, ctxDone, fwd,
                     sendClosed, cap, sends, recvEof, lastRecv, lastInAt, closeCalls, closeLog,
                     panicked, cpend, ev>>

\* OnClose is called again after the run loop has returned
OnCloseAgain ==
    /\ ctl = "closed" /\ closeCalls < MaxClose
    /\ OnClose
    /\ UNCHANGED <<kind, hooks, req, codec, client, metrics, incs, ctl, now, pingDue, pongDue, lastReadAt,
                   readDeadline, PingId, queue, writing, wire, fwd,
                   sendClosed, cap, sends, recvEof, lastRecv, lastInAt, cpend, ev>>

\* ------------------------------------------------------- BaseWSClient
\* the WebSocket objects connect() creates, in order of creation
Sockets == 1..MaxSockets
\* WebSocket.readyState; "none": not created yet
ReadyState == {"none", "CONNECTING", "OPEN", "CLOSING", "CLOSED"}

\* event.data of a text frame: whether JSON.parse accepts it, whether the
\* value is a non-null object, its type ("absent": no such key) and its
\* pingId (<<>>: undefined)
TextFrame(json, object, type, pingId) ==
    [json |-> json, object |-> object, type |-> type, pingId |-> pingId]
NoFrame == TextFrame(FALSE, FALSE, "absent", <<>>)
ClientPingIds == {<<>>} \cup {<<n>> : n \in 0..MaxClientPingId}
Frames ==
    {TextFrame(FALSE, FALSE, "absent", <<>>),
     TextFrame(TRUE, FALSE, "absent", <<>>)}
    \cup {TextFrame(TRUE, TRUE, t, p) :
            t \in {"absent", "ping", "pong", "data"}, p \in ClientPingIds}
\* the value send() is given by the application, and by sendPong
Hello == TextFrame(TRUE, TRUE, "absent", <<>>)
Pong(pingId) == TextFrame(TRUE, TRUE, "pong", <<pingId>>)

\* history: a ws.send on a socket, or a call of one of the handlers
Did(op, sock, msg, n) == [op |-> op, sock |-> sock, msg |-> msg, n |-> n]

\* new BaseWSClient(options): ws is null (0)
BaseWSClient(autoPong) ==
    [autoPong |-> autoPong, ws |-> 0,
     readyState |-> [s \in Sockets |-> "none"],
     log |-> <<>>, received |-> 0, last |-> NoFrame, threw |-> FALSE]

\* get isConnected
isConnected(c) == c.ws # 0 /\ c.readyState[c.ws] = "OPEN"

\* a handler of the application is called
Calls(c, op, msg, n) == [c EXCEPT !.log = Append(@, Did(op, 0, msg, n))]

\* send(data): throws unless this.ws is open
send(c, data) ==
    IF ~isConnected(c)
    THEN [c EXCEPT !.threw = TRUE]
    ELSE [c EXCEPT !.log = Append(@, Did("send", c.ws, data, 0))]

sendPong(c, pingId) == send(c, Pong(pingId))

isPingMessage(msg) == msg.object /\ msg.type = "ping"

\* handleRawMessage(data): an exception of sendPong leaves the handler
handleRawMessage(c, data) ==
    IF ~data.json
    THEN Calls(c, "onMessage", data, 0)
    ELSE IF isPingMessage(data)
         THEN LET ponged == IF c.autoPong /\ data.pingId # <<>>
                            THEN sendPong(c, data.pingId[1])
                            ELSE c
              IN IF ponged.threw
                 THEN ponged
                 ELSE Calls(ponged, "onPing", NoFrame,
                            IF data.pingId = <<>> THEN 0 ELSE data.pingId[1])
         ELSE Calls(c, "onMessage", data, 0)

\* connect(url): resolves at once if this.ws is open, else this.ws becomes
\* a new WebSocket with the four handlers; the socket this.ws was keeps its
\* handlers
ClientConnect ==
    /\ ~isConnected(client)
    /\ \E s \in Sockets :
         /\ client.readyState[s] = "none"
         /\ \A u \in Sockets : u < s => client.readyState[u] # "none"
         /\ client' = [client EXCEPT !.ws = s, !.threw = FALSE,
                                     !.readyState[s] = "CONNECTING"]
    /\ UNCHANGED <<connVars, codec, metrics, incs>>

\* ws.onopen
SocketOpen ==
    /\ \E s \in Sockets :
         /\ client.readyState[s] = "CONNECTING"
         /\ client' = [client EXCEPT !.readyState[s] = "OPEN", !.threw = FALSE]
    /\ UNCHANGED <<connVars, codec, metrics, incs>>

\* ws.onerror, then ws.onclose, of a socket that could not connect
SocketError ==
    /\ \E s \in Sockets :
         /\ client.readyState[s] = "CONNECTING"
         /\ client' = [Calls(Calls(client, "onError", NoFrame, 0),
                             "onClose", NoFrame, 0)
                         EXCEPT !.readyState[s] = "CLOSED", !.threw = FALSE]
    /\ UNCHANGED <<connVars, codec, metrics, incs>>

\* ws.onclose of a socket that was open
SocketClose ==
    /\ \E s \in Sockets :
         /\ client.readyState[s] \in {"OPEN", "CLOSING"}
         /\ client' = [Calls(client, "onClose", NoFrame, 0)
                         EXCEPT !.readyState[s] = "CLOSED", !.threw = FALSE]
    /\ UNCHANGED <<connVars, codec, metrics, incs>>

\* close(): this.ws.close(); this.ws = null
ClientClose ==
    /\ client.ws # 0
    /\ client' = [client EXCEPT
                    !.ws = 0, !.threw = FALSE,
                    !.readyState[client.ws] =
                        IF @ \in {"CONNECTING", "OPEN"} THEN "CLOSING" ELSE @]
    /\ UNCHANGED <<connVars, codec, metrics, incs>>

\* send(data) called by the application
ClientSend ==
    /\ Len(client.log) < MaxLog
    /\ client' = send([client EXCEPT !.threw = FALSE], Hello)
    /\ UNCHANGED <<connVars, codec, metrics, incs>>

\* ws.onmessage of an open socket: handleRawMessage(event.data)
ClientReceive ==
    /\ client.received < MaxFrames
    /\ Len(client.log) < MaxLog
    /\ \E s \in Sockets : \E data \in Frames :
         /\ client.readyState[s] = "OPEN"
         /\ client' = [handleRawMessage([client EXCEPT !.threw = FALSE], data)
                         EXCEPT !.received = @ + 1, !.last = data]
    /\ UNCHANGED <<connVars, codec, metrics, incs>>

\* ------------------------------------------------------- GRPCWSCodec
\* ControlMessage: Type, Data, Error, PingId.  Error is a text, a sequence
\* of characters; Data is a Go value named by its dynamic type.
ControlMessage(t, d, e, id) == [Type |-> t, Data |-> d, Error |-> e, PingId |-> id]
ZeroMessage == ControlMessage("", "nil", <<>>, 0)
Types == {"data", "error", "stream_end", "ping", "pong", "cancel", "end_send"}
DataValues == {"nil", "map", "int", "string"}
ErrorTexts == {<<>>, <<"e">>, <<"<", "e">>, <<"q", "b">>}
PingIds == {0, 1, MaxPingId}
Envelopes ==
    {ControlMessage(t, d, e, id) :
        t \in Types, d \in DataValues, e \in ErrorTexts, id \in PingIds}

\* a JSON object: the keys it has and their values; a key it has not
\* carries a filler that is never a value of the field.
Absent == <<"absent">>
Object(has, t, d, e, id) ==
    [has |-> has, type |-> t, data |-> d, error |-> e, pingId |-> id]
NoObject == Object({}, "", "absent", Absent, -1)

\* json string literals: encoding/json escapes < (and >, &), the quote and
\* the backslash (q, b); json.Unmarshal undoes the escapes.
Escape(txt) ==
    [i \in 1..Len(txt) |->
        CASE txt[i] = "<" -> "\\u003c"
          [] txt[i] = "q" -> "\\q"
          [] txt[i] = "b" -> "\\b"
          [] OTHER -> txt[i]]
Unescape(lit) ==
    [i \in 1..Len(lit) |->
        CASE lit[i] = "\\u003c" -> "<"
          [] lit[i] = "\\q" -> "q"
          [] lit[i] = "\\b" -> "b"
          [] OTHER -> lit[i]]

\* the JSON value of a Go value, and the Go value json.Unmarshal stores in
\* a field of type any (a JSON number becomes a float64)
ToJSON(d) ==
    CASE d = "map" -> "object" [] d = "int" -> "number"
      [] d = "string" -> "string" [] OTHER -> "null"
FromJSON(j) ==
    CASE j = "object" -> "map" [] j = "number" -> "float64"
      [] j = "string" -> "string" [] OTHER -> "nil"

\* json.Marshal of a ControlMessage: "type" always; "data", "error" and
\* "pingId" are omitempty: left out for nil, "" and 0.
Marshal(m) ==
    Object({"type"} \cup (IF m.Data # "nil" THEN {"data"} ELSE {})
                     \cup (IF m.Error # <<>> THEN {"error"} ELSE {})
                     \cup (IF m.PingId # 0 THEN {"pingId"} ELSE {}),
           m.Type,
           IF m.Data # "nil" THEN ToJSON(m.Data) ELSE "absent",
           IF m.Error # <<>> THEN Escape(m.Error) ELSE Absent,
           IF m.PingId # 0 THEN m.PingId ELSE -1)

\* json.Unmarshal reading the id under the key "ping_id".
UnmarshalSnakeCase(o) ==
    ControlMessage(IF "type" \in o.has THEN o.type ELSE "",
                   IF "data" \in o.has THEN FromJSON(o.data) ELSE "nil",
                   IF "error" \in o.has THEN Unescape(o.error) ELSE <<>>,
                   IF "ping_id" \in o.has THEN o.pingId ELSE 0)

\* json.Unmarshal into a zero ControlMessage: a key the object has sets its
\* field, the other fields keep their zero value.
Unmarshal(o) ==
    ControlMessage(IF "type" \in o.has THEN o.type ELSE "",
                   IF "data" \in o.has THEN FromJSON(o.data) ELSE "nil",
                   IF "error" \in o.has THEN Unescape(o.error) ELSE <<>>,
                   IF "pingId" \in o.has THEN o.pingId ELSE 0)

\* GRPCWSCodec.Encode: the bytes of json.Marshal, always as a text message
Encode(m) == [data |-> Marshal(m), msgType |-> "text"]
\* GRPCWSCodec.Decode: json.Unmarshal of the bytes, whatever the msgType
Decode(data, msgType) == Unmarshal(data)

CodecRound(pc, m, data, msgType, out) ==
    [pc |-> pc, msg |-> m, data |-> data, msgType |-> msgType, out |-> out]
CodecIdle == CodecRound("idle", ZeroMessage, NoObject, "none", ZeroMessage)

\* data, msgType, err := codec.Encode(msg)
CodecEncode ==
    /\ codec.pc = "msg"
    /\ codec' = CodecRound("encoded", codec.msg, Encode(codec.msg).data,
                           Encode(codec.msg).msgType, ZeroMessage)
    /\ UNCHANGED <<connVars, metrics, incs, client>>

\* msg, err := codec.Decode(data, msgType)
CodecDecode ==
    /\ codec.pc = "encoded"
    /\ codec' = [codec EXCEPT !.pc = "decoded",
                              !.out = Decode(codec.data, codec.msgType)]
    /\ UNCHANGED <<connVars, metrics, incs, client>>

NextCodec ==
    \/ CodecEncode
    \/ CodecDecode

\* a codec about to encode any of the envelopes
InitCodec ==
    Init /\ kind = "bidi" /\ hooks = "default" /\ cap = 1
         /\ metrics = MetricsZero /\ incs = <<>>
         /\ client = BaseWSClient(TRUE)
         /\ codec \in {CodecRound("msg", m, NoObject, "none", ZeroMessage) :
                          m \in Envelopes}

SpecCodec == InitCodec /\ [][NextCodec]_vars

\* the goroutines that increment: HandleMessage (run loop), forwardResponses
Incrementers == {"controller", "forwarder"}
Inc(by, ctr, ret) == [by |-> by, ctr |-> ctr, ret |-> ret]

\* IncrementSent as a plain load, add and store: the load may have seen the
\* counter as it was before other increments.
IncrementSentRacy ==
    /\ Len(incs) < MaxIncs
    /\ \E p \in Incrementers : \E seen \in 0..metrics.MsgsSent :
         /\ metrics' = [metrics EXCEPT !.MsgsSent = seen + 1]
         /\ incs' = Append(incs, Inc(p, "MsgsSent", seen + 1))
    /\ UNCHANGED <<connVars, codec, client>>

\* StreamMetrics.IncrementSent, called by either goroutine
IncrementSent ==
    /\ Len(incs) < MaxIncs
    /\ \E p \in Incrementers :
         /\ metrics' = [metrics EXCEPT !.MsgsSent = AddInt64(@, 1)]
         /\ incs' = Append(incs, Inc(p, "MsgsSent", AddInt64(metrics.MsgsSent, 1)))
    /\ UNCHANGED <<connVars, codec, client>>

\* StreamMetrics.IncrementReceived, called by either goroutine
IncrementReceived ==
    /\ Len(incs) < MaxIncs
    /\ \E p \in Incrementers :
         /\ metrics' = [metrics EXCEPT !.MsgsReceived = AddInt64(@, 1)]
         /\ incs' = Append(incs, Inc(p, "MsgsReceived",
                                     AddInt64(metrics.MsgsReceived, 1)))
    /\ UNCHANGED <<connVars, codec, client>>

NextMetrics ==
    \/ IncrementSent
    \/ IncrementReceived

\* the zero StreamMetrics of a new bridge connection
InitMetrics ==
    Init /\ kind = "bidi" /\ hooks = "default" /\ cap = 1
         /\ codec = CodecIdle /\ metrics = MetricsZero /\ incs = <<>>
         /\ client = BaseWSClient(TRUE)

SpecMetrics == InitMetrics /\ [][NextMetrics]_vars

NextClient ==
    \/ ClientConnect
    \/ SocketOpen
    \/ SocketError
    \/ SocketClose
    \/ ClientClose
    \/ ClientSend
    \/ ClientReceive

\* a new BaseWSClient, with either autoPong option
InitClient ==
    Init /\ kind = "base" /\ hooks = "default" /\ cap = 1
         /\ codec = CodecIdle /\ metrics = MetricsZero /\ incs = <<>>
         /\ client \in {BaseWSClient(a) : a \in BOOLEAN}

SpecClient == InitClient /\ [][NextClient]_vars

\* a plain connection (BaseConn, possibly with overridden hooks)
Next ==
    \/ WSServe
    \/ Tick
    \/ Start
    \/ StartFail
    \/ PingTick
    \/ PongTick
    \/ ReadError
    \/ ReadMessage
    \/ HandlerSend
    \/ WriterTake
    \/ WriteComplete
    \/ OnCloseAgain

InitBase ==
    Init /\ kind = "base" /\ cap = 1
         /\ codec = CodecIdle /\ metrics = MetricsZero /\ incs = <<>>
         /\ client = BaseWSClient(TRUE)

Spec == InitBase /\ [][Next]_vars

\* a grpcws bridge connection
NextBridge ==
    \/ WSServe
    \/ BridgeTick
    \/ Start
    \/ PingTick
    \/ ReadError
    \/ ReadMessage
    \/ HandlerSend
    \/ ForwarderStep
    \/ WriterTake
    \/ WriteComplete
    \/ OnCloseAgain

InitBridge ==
    Init /\ kind \in Bridge
         /\ codec = CodecIdle /\ metrics = MetricsZero /\ incs = <<>>
         /\ client = BaseWSClient(TRUE)

SpecBridge == InitBridge /\ [][NextBridge]_vars


\* ====================================================== the properties
IsEnd(m) == m.tag = "data" /\ m.env = "stream_end"
IsErr(m) == m.tag = "data" /\ m.env = "error"
\* the calls of Writer.Send by task t with a stream_end / error envelope
EndsBy(t) == {i \in 1..Len(sends) : sends[i].by = t /\ IsEnd(sends[i].msg)}
ErrsBy(t) == {i \in 1..Len(sends) : sends[i].by = t /\ IsErr(sends[i].msg)}
IsPing(r) == r.msg.tag = "ping"
Pings == SelectSeq(sends, IsPing)
WirePing(f) == f.tag = "ping"
WirePings == SelectSeq(wire, WirePing)

\* C1: whatever the interleaving of heartbeat ticks, handler sends and
\* forwarder sends, only the writer worker is ever inside conn.WriteMessage,
\* so at most one write is in flight, and every frame on the wire was
\* written by the worker.
C1_SingleWriter ==
    /\ \A t \in Tasks : writing[t] # None => t = "writer"
    /\ Cardinality({t \in Tasks : writing[t] # None}) <= 1
    /\ \A i \in 1..Len(wire) : wire[i].by = "writer"

\* a heartbeat, a forwarder envelope and a handler envelope all reached the wire
C1_Witness ==
    /\ \E i \in 1..Len(wire) : wire[i].tag = "ping"
    /\ \E i \in 1..Len(wire) :
         wire[i].tag = "data" /\ sends[wire[i].seq].by = "forwarder"
    /\ \E i \in 1..Len(wire) :
         wire[i].tag = "data" /\ sends[wire[i].seq].by = "controller"

\* C2: frames reach the wire in the order their messages were enqueued:
\* the wire, then the frame being written, then the queue carry strictly
\* increasing enqueue numbers, and each frame is the frame of its message.
C2_OutboundFIFO ==
    LET order == [i \in 1..Len(wire) |-> wire[i].seq]
                 \o (IF writing["writer"] # None
                     THEN <<writing["writer"].seq>> ELSE <<>>)
                 \o [i \in 1..Len(queue) |-> queue[i].seq]
    IN /\ \A i, j \in 1..Len(order) : i < j => order[i] < order[j]
       /\ \A i \in 1..Len(wire) :
            /\ wire[i].seq \in 1..Len(sends)
            /\ sends[wire[i].seq].ok
            /\ sends[wire[i].seq].msg.tag = wire[i].tag
            /\ sends[wire[i].seq].msg.env = wire[i].env
            /\ sends[wire[i].seq].msg.id = wire[i].id

\* with a channel of capacity 1, a data frame, then the heartbeat enqueued
\* after it, are on the wire
C2_Witness ==
    /\ cap = 1
    /\ \E i, j \in 1..Len(wire) :
         i < j /\ wire[i].tag = "data" /\ wire[j].tag = "ping"

\* C3 as stated: a connection never has both a stream_end and an error
\* envelope on the wire.
C3_Original ==
    ~ /\ \E i \in 1..Len(wire) : wire[i].tag = "data" /\ wire[i].env = "stream_end"
      /\ \E i \in 1..Len(wire) : wire[i].tag = "data" /\ wire[i].env = "error"

\* C3 amended: the forwarder sends at most one terminal envelope
\* (stream_end or error) and nothing after it, so a server-streaming
\* connection never sends both; the error envelopes of HandleMessage in the
\* client-streaming and bidi bridges are not exclusive with stream_end.
C3_ForwarderExclusive ==
    LET term == EndsBy("forwarder") \cup ErrsBy("forwarder") IN
    /\ Cardinality(term) <= 1
    /\ \A i \in term : \A j \in 1..Len(sends) :
         j > i => sends[j].by # "forwarder"
    /\ term # {} => fwd = "exited"
    /\ kind = "server" =>
         \A i, j \in 1..Len(sends) : ~(IsEnd(sends[i].msg) /\ IsErr(sends[j].msg))

\* a bidi connection whose handler answered with an error envelope and whose
\* forwarder then ended the stream
C3_Witness ==
    /\ kind = "bidi" /\ fwd = "exited"
    /\ ErrsBy("controller") # {} /\ EndsBy("forwarder") # {}

\* C4: in the server-streaming and bidi bridges a stream_end is handed to
\* the writer exactly once if stream.Recv returned io.EOF, and never
\* otherwise (not on an error, a cancel, or by HandleMessage).
C4_StreamEndIffEof ==
    kind \in {"server", "bidi"} =>
      /\ Cardinality(EndsBy("forwarder")) = (IF recvEof THEN 1 ELSE 0)
      /\ EndsBy("controller") = {}

\* Recv returned io.EOF on a cancelled stream and the stream_end is on the wire
C4_Witness ==
    /\ recvEof /\ cancelled /\ fwd = "exited"
    /\ \E i \in 1..Len(wire) : wire[i].tag = "data" /\ wire[i].env = "stream_end"

C6_PingIdMonotonic ==
    /\ PingId = Len(Pings)
    /\ \A k \in 1..Len(Pings) : Pings[k].msg.id = k
    /\ \A i, j \in 1..Len(WirePings) : i < j => WirePings[i].id < WirePings[j].id
    /\ \A i \in 1..Len(WirePings) : WirePings[i].id >= 1

\* two heartbeats are on the wire
C6_Witness == Len(WirePings) >= 2 /\ PingId >= 2

\* C7: after the run loop took a reader result, lastReadAt is the time of
\* that result and the read deadline is PongPeriod later; and a timeout tick
\* taken less than PongPeriod after a reader result does not consult
\* OnTimeout.
C7_SilenceReset ==
    /\ [](lastInAt >= 0 =>
            lastReadAt = lastInAt /\ readDeadline = lastInAt + PongPeriod)
    /\ [][(pongDue /\ ~pongDue' /\ lastInAt >= 0 /\ now - lastInAt < PongPeriod)
            => (ev'.op = "pongTick" /\ ~ev'.consulted /\ ctl' = ctl)]_vars

\* a timeout tick was taken less than PongPeriod after an inbound frame
C7_Witness ==
    /\ ev.op = "pongTick" /\ lastInAt > 0 /\ ev.delta < PongPeriod
    /\ ~ev.consulted /\ ctl = "open"

\* C8: at a timeout tick OnTimeout is consulted iff now - lastReadAt exceeds
\* PongPeriod, and the run loop exits iff it was consulted and returned
\* true.
C8_TimeoutTick ==
    ev.op = "pongTick" =>
      /\ ev.consulted <=> ev.delta > PongPeriod
      /\ ctl = "closed" <=> (ev.consulted /\ ev.result)

\* OnTimeout was consulted, returned false, and the connection is still open
C8_Witness ==
    /\ ev.op = "pongTick" /\ ev.consulted /\ ~ev.result /\ ctl = "open"

\* C9 as stated: after HandleMessage returned an error the connection is
\* closed.
C9_HandlerErrorCloses == (ev.op = "handle" /\ ev.result) => ctl = "closed"

\* C10: a reader error other than io.EOF and a going-away close is given to
\* OnError, and the run loop exits iff OnError returned an error.
C10_ReaderError ==
    (ev.op = "readError" /\ ev.in \notin {"eof", "close_going_away"}) =>
      /\ ev.consulted
      /\ ctl = "closed" <=> ev.result

\* OnError masked a reader error and the connection is still open
C10_Witness ==
    /\ ev.op = "readError" /\ ev.in = "decode"
    /\ ev.consulted /\ ~ev.result /\ ctl = "open"

\* C11 as stated: after the reader reported a close of the peer with code
\* 1000 (normal) or 1001 (going away) the run loop has exited, whatever
\* OnError returned.
C11_NormalCloseCloses ==
    (ev.op = "readError" /\ ev.in \in {"close_normal", "close_going_away"})
      => ctl = "closed"

\* C12: when OnStart returned an error the run loop has returned and OnClose
\* has run, nothing was handed to the writer, no frame is on the wire or
\* being written, no heartbeat was made, no reader result was taken; and
\* none of that changes afterwards.
C12_StartFailureSilent ==
    /\ [](ev.op = "startFail" =>
            /\ ctl = "closed" /\ closeCalls >= 1
            /\ sends = <<>> /\ queue = <<>> /\ wire = <<>>
            /\ \A t \in Tasks : writing[t] = None
            /\ PingId = 0 /\ lastInAt = -1 /\ cpend = <<>>)
    /\ [][ev.op = "startFail" =>
            UNCHANGED <<ctl, ev, sends, queue, wire, writing, PingId,
                        lastInAt, cpend, now>>]_vars

\* OnStart failed and OnClose was called once more afterwards
C12_Witness == ev.op = "startFail" /\ closeCalls = 2 /\ writer = "nil"

\* C15 as stated: once the writer worker has exited on a failed encode or
\* write while the run loop is open, the next step of the run loop is its
\* exit; it handles no further tick or reader result first.
C15_WriterFailureCloses ==
    [][(writer = "stopped" /\ ctl = "open" /\ ev' # ev) => ctl' = "closed"]_vars

\* C16: after HandleMessage processed a cancel envelope the token is fired,
\* HandleMessage returned nil, it sent nothing and the run loop is open; the
\* step itself leaves the writer, its queue, the wire and the forwarder as
\* they were; and a heartbeat tick taken on the cancelled, open connection
\* still hands the next ping to the writer.
C16_CancelKeepsOpen ==
    /\ [](ev.op = "handle" /\ ev.in = "cancel" =>
            cancelled /\ ~ev.result /\ ctl = "open" /\ cpend = <<>>)
    /\ [][(ev' # ev /\ ev'.op = "handle" /\ ev'.in = "cancel") =>
            UNCHANGED <<ctl, writer, queue, sends, wire, writing, fwd,
                        closeCalls, pingDue, PingId>>]_vars
    /\ [][(cancelled /\ ctl = "open" /\ pingDue /\ ~pingDue') =>
            /\ PingId' = PingId + 1 /\ ctl' = "open"
            /\ sends' = Append(sends, [msg |-> PingMsg(PingId + 1),
                                       by |-> "controller",
                                       ok |-> (writer = "running")])]_vars

\* a heartbeat was handed to the running writer after the peer's cancel
C16_Witness ==
    /\ ev.op = "pingTick" /\ cancelled /\ ctl = "open" /\ writer = "running"
    /\ \E i \in 1..Len(sends) : sends[i].msg.tag = "ping" /\ sends[i].ok

\* the forwarder hands a message to the writer in this step
ForwarderSends ==
    Len(sends') > Len(sends) /\ sends'[Len(sends')].by = "forwarder"

C19_EnvelopeRoundTrip ==
    /\ codec.pc \in {"encoded", "decoded"} => codec.msgType = "text"
    /\ codec.pc = "decoded" =>
         /\ codec.out.Type = codec.msg.Type
         /\ codec.out.Error = codec.msg.Error
         /\ codec.out.PingId = codec.msg.PingId

\* a ping with the largest id and an error text that needs escaping went
\* through Encode and Decode
C19_Witness ==
    /\ codec.pc = "decoded" /\ codec.msg.Type = "ping"
    /\ codec.msg.PingId = MaxPingId /\ codec.msg.Error = <<"<", "e">>
    /\ codec.data.error # codec.msg.Error
    /\ codec.out.PingId = MaxPingId

\* the calls made on counter c, in order
IncsOf(c) == SelectSeq(incs, LAMBDA r : r.ctr = c)

\* C20: each counter equals the number of increments made on it, by
\* whichever goroutine and in whatever order, the n-th increment of a
\* counter returned n, and no step lowers a counter.
C20_CountersAtomic ==
    /\ [](/\ metrics.MsgsSent = Len(IncsOf("MsgsSent"))
           /\ metrics.MsgsReceived = Len(IncsOf("MsgsReceived"))
           /\ \A c \in {"MsgsSent", "MsgsReceived"} :
                \A n \in 1..Len(IncsOf(c)) : IncsOf(c)[n].ret = n)
    /\ [][/\ metrics'.MsgsSent >= metrics.MsgsSent
           /\ metrics'.MsgsReceived >= metrics.MsgsReceived]_vars

\* the forwarder and HandleMessage incremented the sent counter in turn,
\* with increments of the received counter in between
C20_Witness ==
    /\ metrics.MsgsSent = 3 /\ metrics.MsgsReceived >= 1
    /\ \E i, j, k \in 1..Len(incs) :
         /\ i < j /\ j < k
         /\ incs[i] = Inc("forwarder", "MsgsSent", 1)
         /\ incs[j] = Inc("controller", "MsgsSent", 2)
         /\ incs[k] = Inc("forwarder", "MsgsSent", 3)

\* C21: when Validate refused the request, no upgrade was attempted and
\* the connection's hooks were never called: no OnStart (no writer), no
\* SendPing, no run loop step (HandleMessage, OnError, OnTimeout), no
\* OnClose; and that remains so.
C21_UpgradeOnlyIfValid ==
    /\ [](req.valid = "no" =>
            /\ req.upgrade = "none" /\ ctl = "rejected"
            /\ writer = "nil" /\ PingId = 0 /\ ev = NoEv /\ lastInAt = -1
            /\ closeCalls = 0 /\ sends = <<>> /\ wire = <<>>)
    /\ [](req.upgrade = "ok" => req.valid = "yes")
    /\ [][req.valid = "no" => UNCHANGED vars]_vars

\* Validate refused the request of a plain connection
C21_Witness == req.valid = "no" /\ kind = "base" /\ ctl = "rejected"

\* C24: when ServerStreamHandler.Validate refuses, either ParseRequest
\* failed, the answer is 400 and CreateStream was not called (no context
\* exists), or CreateStream failed, the answer is 500 and the context made
\* for the stream is cancelled; no connection was returned, so nothing is
\* upgraded or started.
C24_ServerValidateRefusal ==
    (kind = "server" /\ req.valid = "no") =>
      /\ \/ req.status = 400 /\ req.stream = "none" /\ ~ctxDone
         \/ req.status = 500 /\ req.stream = "failed" /\ ctxDone
      /\ req.upgrade = "none" /\ ctl = "rejected"
      /\ writer = "nil" /\ fwd = "none" /\ closeCalls = 0

\* CreateStream failed for a server-streaming request
C24_Witness ==
    /\ kind = "server" /\ req.valid = "no" /\ req.status = 500
    /\ req.stream = "failed" /\ ctxDone

\* C22: every message handed to the writer has exactly one of its branches
\* Data, Ping, Error set, and a message gives at most one frame: no two
\* frames on the wire, and none in flight, come from the same message.
C22_OneBranchOneFrame ==
    /\ \A i \in 1..Len(sends) : Cardinality(Branches(sends[i].msg)) = 1
    /\ \A i \in 1..Len(queue) : Cardinality(Branches(queue[i].msg)) = 1
    /\ \A i, j \in 1..Len(wire) : wire[i].seq = wire[j].seq => i = j
    /\ \A i \in 1..Len(wire) : writing["writer"].seq # wire[i].seq

\* a ping, a data message and an error each gave their frame
C22_Witness ==
    /\ Len(sends) = 3 /\ Len(wire) = 3
    /\ {wire[i].tag : i \in 1..3} = {"ping", "data", "error"}

\* C23: a heartbeat on the wire is a text message whose JSON object has
\* exactly type "ping", the pingId of the message it was made from (the
\* counter when it was enqueued), the connection's id and name; a data
\* frame has the message type the codec chose.
C23_HeartbeatFrame ==
    /\ \A i \in 1..Len(wire) :
         wire[i].tag = "ping" =>
           /\ wire[i].mt = "text"
           /\ wire[i].body = [type |-> "ping",
                              pingId |-> sends[wire[i].seq].msg.id,
                              connId |-> ConnId, name |-> Name(kind)]
    /\ \A k \in 1..Len(Pings) : Pings[k].msg.id = k
    /\ \A i \in 1..Len(wire) : wire[i].tag = "data" => wire[i].mt = "codec"

\* the second heartbeat is on the wire after a data frame of the codec
C23_Witness ==
    \E i, j \in 1..Len(wire) :
      /\ i < j /\ wire[i].tag = "data" /\ wire[i].mt = "codec"
      /\ wire[j].tag = "ping" /\ wire[j].body.pingId = 2

\* the close errors the reader function turns into net.ErrClosed
UnexpectedCloses == {raw \in CloseErrors : ReaderWrap(raw) = "net_closed"}

\* C25 as stated: after the reader reported an unexpected close before
\* anything was sent, the connection is closed (and nothing was sent).
C25_Original ==
    (ev.op = "readError" /\ ev.in \in UnexpectedCloses /\ sends = <<>>)
      => ctl = "closed"

\* a step of the run loop's reader-error branch
ReaderErrorStep ==
    ev'.op = "readError" /\ (ev' # ev \/ lastInAt' # lastInAt)

\* the part of C25 the code keeps: no step of the reader-error branch hands
\* a message to the writer or puts a frame on the wire.
ReaderErrorSilent ==
    [][ReaderErrorStep =>
         UNCHANGED <<sends, queue, writing, wire, cpend>>]_vars

\* C26 as stated: with the hooks of BaseConn the connection is still open
\* after the reader reported a frame the codec could not decode.
C26_Original ==
    (ev.op = "readError" /\ ev.in = "decode" /\ hooks = "default")
      => ctl = "open"

\* C26: a frame that fails Codec.Decode is given to OnError; with the hooks
\* of BaseConn OnError returns the error and the run loop has returned
\* (OnClose has run); the connection is open afterwards exactly when an
\* OnError override returned nil, and then the next frame is still dispatched.
C26_DecodeFailure ==
    (ev.op = "readError" /\ ev.in = "decode") =>
      /\ ev.consulted
      /\ hooks = "default" => (ev.result /\ ctl = "closed" /\ closeCalls >= 1)
      /\ ctl = "open" <=> ~ev.result
      /\ (ctl = "open" /\ cpend = <<>>) => ENABLED ReadMessage

\* the OnError of BaseConn returned the decode error and the connection
\* was closed
C26_Witness ==
    /\ ev.op = "readError" /\ ev.in = "decode" /\ hooks = "default"
    /\ ev.consulted /\ ev.result /\ ctl = "closed" /\ closeCalls = 1

\* which hook the last step of the run loop asked
OnErrorConsulted == ev.op = "readError" /\ ev.consulted
OnTimeoutConsulted == ev.op = "pongTick" /\ ev.consulted

\* C27 as stated: after the reader returned the error of an expired read
\* deadline, OnTimeout was asked and OnError was not.
C27_ReadDeadlineAsksOnTimeout ==
    (ev.op = "readError" /\ ev.in = "timeout")
      => (OnTimeoutConsulted /\ ~OnErrorConsulted)

\* the place of the first call of c in the close path (0: never called)
Pos(c) ==
    IF \E i \in 1..Len(closeLog) : closeLog[i] = c
    THEN CHOOSE i \in 1..Len(closeLog) :
           closeLog[i] = c /\ \A j \in 1..(i - 1) : closeLog[j] # c
    ELSE 0
Called(c) == Cardinality({i \in 1..Len(closeLog) : closeLog[i] = c})

TakesError ==
    /\ queue # <<>> /\ queue' = Tail(queue)
    /\ "Error" \in Branches(Head(queue).msg)
    /\ "Ping" \notin Branches(Head(queue).msg)

\* conn.WriteMessage of an error frame returns
ErrorWriteReturns ==
    /\ writing["writer"].tag = "error" /\ writing'["writer"] = None

\* C29: an Error message carrying io.EOF is dropped by the writer: nothing
\* is written or being written for it and the writer keeps running; every
\* other Error message becomes one text frame {type: "error", error: text}
\* handed to conn.WriteMessage, and the outcome of that write is the
\* writer's: the frame is on the wire and the writer goes on, or it is not
\* and the writer has stopped.
C29_EofSuppressed ==
    /\ [][TakesError =>
            IF Head(queue).msg.err = "eof"
            THEN UNCHANGED <<writing, wire, writer>>
            ELSE /\ writing'["writer"].tag = "error"
                 /\ writing'["writer"].mt = "text"
                 /\ writing'["writer"].body =
                      [type |-> "error", error |-> Head(queue).msg.err]
                 /\ UNCHANGED <<wire, writer>>]_vars
    /\ [][ErrorWriteReturns =>
            \/ /\ Len(wire') = Len(wire) + 1
               /\ wire'[Len(wire')].body = writing["writer"].body
               /\ wire'[Len(wire')].mt = "text"
               /\ writer' = writer
            \/ wire' = wire /\ writer' = "stopped"]_vars
    /\ [](\A i \in 1..Len(wire) :
            wire[i].tag = "error" => wire[i].body.error # "eof")

\* the writer took an io.EOF error, kept running and then wrote the frame
\* of the error sent after it
C29_Witness ==
    /\ Len(sends) = 2 /\ writer = "running"
    /\ sends[1].msg.err = "eof" /\ sends[1].ok
    /\ sends[2].msg.err = "other" /\ sends[2].ok
    /\ Len(wire) = 1 /\ wire[1].tag = "error"
    /\ wire[1].body = [type |-> "error", error |-> "other"]

\* C30: when stream.Recv returns an error other than io.EOF while the token
\* is not fired, the forwarder hands one error envelope with the error's
\* text to the writer and exits, and that step leaves the run loop and the
\* close path alone; the forwarder has then sent one error envelope at most
\* and no stream_end.
C30_RecvErrorEnvelope ==
    /\ [][(fwd = "running" /\ ~cancelled /\ lastRecv' = "error"
             /\ (fwd' # fwd \/ sends' # sends \/ lastRecv' # lastRecv)) =>
            /\ fwd' = "exited"
            /\ sends' = Append(sends, [msg |-> sendError(ErrorText("error")),
                                       by |-> "forwarder",
                                       ok |-> (writer = "running")])
            /\ UNCHANGED <<ctl, writer, closeCalls, closeLog, cancelled,
                           ctxDone>>]_vars
    /\ []((lastRecv = "error" /\ fwd # "none") =>
            /\ fwd = "exited"
            /\ Cardinality(ErrsBy("forwarder")) <= 1
            /\ EndsBy("forwarder") = {})

\* stream.Recv failed on a stream nobody cancelled: the forwarder has sent
\* its error envelope and exited, the connection is still open
C30_Witness ==
    /\ ctl = "open" /\ ~cancelled /\ fwd = "exited" /\ lastRecv = "error"
    /\ Cardinality(ErrsBy("forwarder")) = 1 /\ EndsBy("forwarder") = {}
    /\ \E i \in 1..Len(wire) :
         wire[i].tag = "data" /\ wire[i].body.error = "recv failed"

\* HandleMessage of a client-streaming connection begins on envelope m
ClientHandles(m) ==
    /\ kind = "client" /\ cpend = <<>>
    /\ ev'.op = "handle" /\ ev'.in = m
    /\ (ev' # ev \/ lastInAt' # lastInAt \/ cpend' # cpend)

\* C31: on end_send a client-streaming connection has, when CloseAndRecv and
\* the encoding succeeded, the data envelope and then stream_end to send and
\* returns nil, and otherwise one error envelope and returns the error;
\* while it sends them nothing else is handed to the writer, so the data
\* envelope is next to its stream_end in the order of the sends.
C31_EndSendOrder ==
    /\ [][ClientHandles("end_send") =>
            /\ cpend' = IF ev'.result THEN <<ErrEnvelope>>
                        ELSE <<DataEnvelope, StreamEnd>>
            /\ sends' = sends]_vars
    /\ [][(kind = "client" /\ cpend # <<>>) =>
            \/ sends' = sends
            \/ /\ sends' = Append(sends, [msg |-> Head(cpend),
                                          by |-> "controller",
                                          ok |-> (writer = "running")])
               /\ cpend' = Tail(cpend)]_vars
    /\ [](kind = "client" =>
            \A i \in 1..Len(sends) :
              /\ IsEnd(sends[i].msg) =>
                   (i > 1 /\ sends[i - 1].msg = DataEnvelope)
              /\ sends[i].msg = DataEnvelope =>
                   IF i < Len(sends) THEN IsEnd(sends[i + 1].msg)
                   ELSE cpend = <<StreamEnd>>)

\* the response and the stream_end of one end_send, both accepted by the
\* writer and on the wire in that order
C31_Witness ==
    /\ kind = "client" /\ ev.op = "handle" /\ ev.in = "end_send"
    /\ ~ev.result /\ cpend = <<>> /\ Len(sends) = 2
    /\ sends[1].msg = DataEnvelope /\ sends[1].ok
    /\ sends[2].msg = StreamEnd /\ sends[2].ok
    /\ Len(wire) = 2 /\ wire[1].env = "data" /\ wire[2].env = "stream_end"

\* HandleMessage of a bidi connection runs on an end_send envelope
BidiEndSend ==
    /\ kind = "bidi" /\ cpend = <<>>
    /\ ev'.op = "handle" /\ ev'.in = "end_send"
    /\ \/ ev' # ev \/ lastInAt' # lastInAt \/ sendClosed' # sendClosed
       \/ cpend' # cpend \/ cancelled' # cancelled

\* a step of the forwarder of a bidi connection whose send side is closed
ForwardsHalfClosed ==
    /\ kind = "bidi" /\ sendClosed /\ ~cancelled /\ fwd = "running"
    /\ (fwd' # fwd \/ ForwarderSends \/ lastRecv' # lastRecv)

\* C32: end_send on a bidi connection calls CloseSend and leaves the
\* forwarder, the cancellation token, the writer and the run loop as they
\* are; afterwards the forwarder still forwards each value Recv returns as a
\* data envelope and goes on, and ends with stream_end when Recv returns
\* io.EOF.
C32_HalfClose ==
    /\ [][BidiEndSend =>
            /\ sendClosed'
            /\ UNCHANGED <<fwd, cancelled, ctxDone, ctl, writer, closeCalls,
                           closeLog, sends, queue>>]_vars
    /\ [][ForwardsHalfClosed =>
            /\ lastRecv' = "value" =>
                 (fwd' = "running" /\ ForwarderSends
                    /\ sends'[Len(sends')].msg = DataEnvelope)
            /\ lastRecv' = "eof" =>
                 (fwd' = "exited" /\ ForwarderSends
                    /\ sends'[Len(sends')].msg = StreamEnd)]_vars
    /\ []((kind = "bidi" /\ sendClosed /\ fwd = "running" /\ CanSend)
            => ENABLED ForwarderStep)

\* the last thing the run loop did was the end_send: the send side is
\* closed, the forwarder runs, has forwarded a value and nothing is cancelled
C32_Witness ==
    /\ kind = "bidi" /\ ev.op = "handle" /\ ev.in = "end_send" /\ ~ev.result
    /\ sendClosed /\ fwd = "running" /\ ~cancelled /\ ctl = "open"
    /\ lastRecv = "value" /\ Len(wire) >= 1 /\ wire[1].env = "data"

\* the run loop gives an envelope of the peer to HandleMessage in this step
Handles ==
    /\ ctl = "open" /\ cpend = <<>> /\ ev'.op = "handle"
    /\ \/ ev' # ev \/ lastInAt' # lastInAt \/ lastReadAt' # lastReadAt
       \/ cancelled' # cancelled \/ cpend' # cpend \/ sendClosed' # sendClosed

\* C33: HandleMessage of a server-streaming connection returns nil and
\* sends nothing, calls nothing on the upstream stream, counts nothing and
\* leaves the forwarder, the writer and the run loop alone; it fires the
\* cancellation token on a cancel envelope and on no other.
C33_ServerIgnoresInbound ==
    [][(kind = "server" /\ Handles) =>
         /\ ~ev'.result /\ cpend' = <<>>
         /\ UNCHANGED <<sendClosed, metrics, queue, sends, writing, wire,
                        fwd, recvEof, lastRecv, ctl, writer, closeCalls>>
         /\ IF ev'.in = "cancel"
            THEN cancelled' /\ ctxDone'
            ELSE UNCHANGED <<cancelled, ctxDone>>]_vars

\* a server-streaming connection whose forwarder has sent a response took
\* an end_send of the peer: nothing is cancelled, nothing was counted as
\* received, the forwarder runs
C33_Witness ==
    /\ kind = "server" /\ ev.op = "handle" /\ ev.in = "end_send"
    /\ ~cancelled /\ ~sendClosed /\ fwd = "running" /\ ctl = "open"
    /\ metrics = [MsgsSent |-> 1, MsgsReceived |-> 0]
    /\ Len(sends) = 1

\* the received counter moves in this step
Receives == metrics'.MsgsReceived # metrics.MsgsReceived

\* C38: on a data envelope that DecodeRequest fails on, a client-streaming
\* or bidi connection has one error envelope to send, calls nothing on the
\* upstream stream, does not count and returns nil, the connection staying
\* open; the received counter moves only in HandleMessage of such a
\* connection, by one, on a data envelope that stream.Send accepted, and it
\* moves on every such envelope.
C38_ReceivedCount ==
    /\ [][(kind \in {"client", "bidi"} /\ Handles /\ ev'.in = "data_bad") =>
            /\ cpend' = <<ErrEnvelope>> /\ sends' = sends
            /\ ev'.call = "none" /\ ~ev'.result /\ ~Receives
            /\ UNCHANGED <<ctl, closeCalls, sendClosed, cancelled>>]_vars
    /\ [][Receives =>
            /\ kind \in {"client", "bidi"} /\ ctl = "open" /\ cpend = <<>>
            /\ ev'.op = "handle" /\ ev'.in = "data"
            /\ ev'.call = "Send" /\ ~ev'.result
            /\ metrics'.MsgsReceived = metrics.MsgsReceived + 1]_vars
    /\ [][(Handles /\ ev'.call = "Send") =>
            (Receives <=> ~ev'.result)]_vars

\* after a data envelope that was sent upstream and counted, one that does
\* not decode was answered with an error envelope and not counted
C38_Witness ==
    /\ kind \in {"client", "bidi"} /\ ctl = "open"
    /\ ev.op = "handle" /\ ev.in = "data_bad" /\ cpend = <<>>
    /\ metrics.MsgsReceived = 1
    /\ Len(sends) = 1 /\ sends[1].msg = ErrEnvelope
    /\ sends[1].by = "controller"

\* the run loop calls HandleMessage or SendPing in this step
HookCalled ==
    \/ PingId' # PingId
    \/ /\ ev'.op = "handle"
       /\ (ev' # ev \/ lastInAt' # lastInAt \/ lastReadAt' # lastReadAt)

\* the calls of OnClose that WSHandleConn itself made: those before its
\* other deferred calls ran
RunOnCloses ==
    Cardinality({i \in 1..Len(closeLog) :
                   closeLog[i] = "OnClose" /\ i < Pos("pongChecker.Stop")})

\* C34: until WSHandleConn returns OnClose is not called; its return, on a
\* failed OnStart, a timeout or a reader error, calls OnClose exactly once,
\* before anything else of the close path; HandleMessage and SendPing are
\* called only between a successful OnStart and that OnClose.
C34_Lifecycle ==
    /\ [](ctl # "closed" => (closeCalls = 0 /\ closeLog = <<>>))
    /\ [](ctl = "closed" =>
            /\ closeCalls >= 1 /\ closeLog[1] = "OnClose"
            /\ RunOnCloses = 1
            /\ Called("reader.Stop") = 1 /\ Called("conn.Close") = 1)
    /\ [][(ctl # "closed" /\ ctl' = "closed") =>
            /\ ctl \in {"pending", "open"}
            /\ closeCalls' = 1
            /\ ev'.op \in {"startFail", "pongTick", "readError"}
            /\ ev'.op = "startFail" <=> ctl = "pending"]_vars
    /\ [][HookCalled =>
            /\ ctl = "open" /\ ctl' = "open" /\ writer # "nil"
            /\ closeLog = <<>> /\ closeLog' = <<>>]_vars

\* a connection that sent a ping and handled a message was closed by the
\* timeout, with its one OnClose
C34_Witness ==
    /\ ctl = "closed" /\ ev.op = "pongTick" /\ ev.result
    /\ closeCalls = 1 /\ RunOnCloses = 1
    /\ PingId >= 1 /\ lastInAt >= 0

\* the run loop takes a reader result whose error is io.EOF
TakesEof ==
    /\ ev'.op = "readError" /\ ev'.in = "eof"
    /\ (ev' # ev \/ lastInAt' # lastInAt \/ lastReadAt' # lastReadAt)

\* C35: a reader result whose error is io.EOF is dropped: OnError is not
\* asked, HandleMessage has nothing to send, the run loop goes on and
\* OnClose is not called; a connection is closed only by a timeout or by a
\* reader error that is not io.EOF.
C35_EofIgnored ==
    /\ []((ev.op = "readError" /\ ev.in = "eof") =>
            (~ev.consulted /\ ~ev.result /\ ctl = "open" /\ closeCalls = 0))
    /\ [][TakesEof =>
            /\ ctl = "open"
            /\ UNCHANGED <<ctl, closeCalls, closeLog, writer, cancelled,
                           cpend, sends, queue, writing, wire, PingId>>]_vars
    /\ [][(ctl = "open" /\ ctl' = "closed") =>
            /\ ev'.op \in {"pongTick", "readError"}
            /\ ev'.in # "eof"]_vars

\* io.EOF was taken from the reader after the clock had advanced and a ping
\* was sent: the connection is open with its silence clock reset
C35_Witness ==
    /\ ev.op = "readError" /\ ev.in = "eof" /\ ctl = "open"
    /\ now >= 1 /\ lastReadAt = now /\ lastInAt = now /\ PingId >= 1
    /\ closeCalls = 0

\* C36: a reader result that carries an error, whatever becomes of it, sets
\* lastReadAt to now and the read deadline to now + PongPeriod; and a
\* timeout tick taken up to PongPeriod after a reader error that OnError
\* masked (or that was io.EOF) does not consult OnTimeout and leaves the
\* connection open.
C36_ErrorResetsSilence ==
    /\ [][ReaderErrorStep =>
            (lastReadAt' = now /\ readDeadline' = now + PongPeriod
               /\ now' = now)]_vars
    /\ [][(pongDue /\ ~pongDue' /\ ev.op = "readError" /\ ctl = "open"
             /\ now - lastInAt <= PongPeriod) =>
            (ev'.op = "pongTick" /\ ~ev'.consulted /\ ctl' = "open")]_vars

\* a timeout tick is due more than PongPeriod after the start, but a reader
\* error that OnError masked was taken since and holds the timeout back
C36_Witness ==
    /\ ev.op = "readError" /\ ev.consulted /\ ~ev.result /\ ctl = "open"
    /\ pongDue /\ now > PongPeriod
    /\ lastInAt >= 1 /\ lastInAt < now /\ now - lastInAt <= PongPeriod
    /\ lastReadAt = lastInAt /\ readDeadline = lastInAt + PongPeriod

\* the instants at which the timeout ticker fires, up to 2 * PongPeriod
\* after a last read at time last
Firings(last) ==
    {t \in 1..(last + 2 * PongPeriod) : t % PongPeriod = 0}

\* the first firing of the timeout ticker at which the time since the last
\* read exceeds PongPeriod
FirstTimeout(last) ==
    CHOOSE t \in Firings(last) :
      /\ t - last > PongPeriod
      /\ \A u \in Firings(last) : u - last > PongPeriod => t <= u

\* the run loop takes a tick of the timeout ticker
TakesPongTick == pongDue /\ ~pongDue'

\* C37: a tick of the timeout ticker consults OnTimeout iff the time since
\* the last read is strictly greater than PongPeriod; taken as they fire,
\* the ticks before the first such firing do not consult and the tick of
\* that firing does, more than PongPeriod and at most 2 * PongPeriod after
\* the last read; with the OnTimeout of BaseConn the connection is then
\* closed and nothing is handed to the writer or written.
C37_SilentPeerTimeout ==
    /\ [][TakesPongTick =>
            /\ ev'.op = "pongTick"
            /\ ev'.consulted <=> (now - lastReadAt > PongPeriod)]_vars
    /\ [][(TakesPongTick /\ now % PongPeriod = 0) =>
            /\ now < FirstTimeout(lastReadAt) => ~ev'.consulted
            /\ now = FirstTimeout(lastReadAt) =>
                 /\ ev'.consulted
                 /\ ev'.delta > PongPeriod /\ ev'.delta <= 2 * PongPeriod]_vars
    /\ [][(TakesPongTick /\ ev'.consulted /\ hooks = "default") =>
            /\ ev'.result /\ ctl' = "closed" /\ closeCalls' = 1
            /\ UNCHANGED <<sends, queue, writing, wire, cpend>>]_vars

\* nothing was ever read: the tick at 2 * PongPeriod consulted the OnTimeout
\* of BaseConn and the connection was closed; pings were sent, and no error
\* frame is on the wire
C37_Witness ==
    /\ hooks = "default" /\ lastInAt = -1 /\ ctl = "closed"
    /\ ev.op = "pongTick" /\ ev.consulted /\ ev.result
    /\ ev.delta = 2 * PongPeriod /\ now = FirstTimeout(0)
    /\ PingId >= 1
    /\ \A i \in 1..Len(wire) : wire[i].tag # "error"
    /\ \A i \in 1..Len(sends) : sends[i].msg.tag = "ping"

\* the BaseWSClient takes a text frame
ClientTakes(data) ==
    client'.received = client.received + 1 /\ client'.last = data

\* what the step added to the history of the BaseWSClient
Added == SubSeq(client'.log, Len(client.log) + 1, Len(client'.log))

\* a ping with a pingId, autoPong enabled: one pong with that pingId is
\* sent, then onPing is called
PingEchoed(data) ==
    /\ Len(Added) = 2
    /\ Added[1].op = "send" /\ Added[1].msg = Pong(data.pingId[1])
    /\ Added[2] = Did("onPing", 0, NoFrame, data.pingId[1])

\* what a text frame taken by the BaseWSClient leads to
FrameHandled(data) ==
    IF data.json /\ isPingMessage(data)
    THEN /\ (client.autoPong /\ data.pingId # <<>>) => PingEchoed(data)
         /\ \A i \in 1..Len(Added) : Added[i].op # "onMessage"
    ELSE Added = <<Did("onMessage", 0, data, 0)>>

\* C39: a text frame that parses to an object of type "ping" is answered,
\* if autoPong is enabled and its pingId is defined, by exactly one pong
\* with the same pingId, sent before onPing is called, and never reaches
\* onMessage; every other frame reaches onMessage and no pong is sent.
C39_PingEchoed ==
    [][\A data \in Frames : ClientTakes(data) => FrameHandled(data)]_vars

\* the same, for frames taken while this.ws is open
PingEchoedWhileConnected ==
    [][\A data \in Frames :
         (ClientTakes(data) /\ isConnected(client)) => FrameHandled(data)]_vars

====
